---- MODULE Spec2Model ----
(***************************************************************************)
(* FoodRush script.js: the in-memory shopping cart (Cart IIFE), its drawer *)
(* visibility, the toast and badge timers it starts, and the mobile menu   *)
(* that shares document.body.style.overflow with the drawer.               *)
(*                                                                         *)
(* Numbers: a price is held in cents (an integer) or is NaN; NaN absorbs   *)
(* every sum and product, as in JavaScript.  Strings handed to parseFloat  *)
(* are sequences of one-character strings.                                 *)
(*                                                                         *)
(* The page has the elements the script looks up (#cartDrawer,             *)
(* #cartOverlay, #cartBody, #cartBadge, #toast, #hamburgerBtn,             *)
(* #mobileMenu), so the "element missing" early returns are never taken.   *)
(* CartAdd and CartChangeQty are the exported Cart.add and Cart.changeQty; *)
(* the delegated click listeners call them with the dataset of a button    *)
(* and with delta +1 or -1.                                                *)
(***************************************************************************)
EXTENDS Integers, Sequences, FiniteSets, TLC

VARIABLES items, view, toast, toastTimers, badgeBump, bumpTimers,
          drawer, body, menuOpen, lastOp, addRun,
          slider, innerWidth, autoplay, resizeTimer, touch

\* the testimonial slider's state
sliderVars == <<slider, innerWidth, autoplay, resizeTimer, touch>>

\* the state of the cart, the toast, the drawer and the mobile menu
cartVars == <<items, view, toast, toastTimers, badgeBump, bumpTimers,
              drawer, body, menuOpen, addRun>>

vars == <<items, view, toast, toastTimers, badgeBump, bumpTimers,
          drawer, body, menuOpen, lastOp, addRun,
          slider, innerWidth, autoplay, resizeTimer, touch>>

(* ------------------------------ bounds --------------------------------- *)
MaxQty == 2
MaxDelta == 2
MaxTimers == 1
MaxPending == 2
MaxIntervals == 2

(* ------------------------------ inputs --------------------------------- *)
Ids == {"1", "9"}
Names == {"Burger", "Pizza"}
PriceInputs == { <<"5", ".", "0", "0">>, <<"1", "0">>, <<"a", "b", "c">> }
DrawerIds == {"1"}
Deltas == (0 - MaxDelta)..MaxDelta
ScrollbarWidth == 15
DeliveryFee == 299
\* the testimonial cards ("Desktop shows all 3 as grid") and their dots
NumCards == 3
NumDots == NumCards
MobileBreakpoint == 768
Widths == {375, 767, 768, 1024}
DesktopWidth == 1024
ScreenXs == {0, 50, 120}
SwipeThreshold == 50
Keys == {"ArrowLeft", "ArrowRight", "Tab"}
\* the toast's delay of 3000 ms, in units of 1000 ms
ToastDelay == 3

(* ------------------------- number helpers ------------------------------ *)
\* a JavaScript number: cents, or NaN
Num(c) == [nan |-> FALSE, v |-> c]

NaN == [nan |-> TRUE, v |-> 0]

\* a + b
Plus(a, b) == IF a.nan \/ b.nan THEN NaN ELSE Num(a.v + b.v)

\* price * qty, qty an integer
Times(a, q) == IF a.nan THEN NaN ELSE Num(a.v * q)

Digits == {"0", "1", "2", "3", "4", "5", "6", "7", "8", "9"}

DigitVal(c) ==
  CASE c = "0" -> 0 [] c = "1" -> 1 [] c = "2" -> 2 [] c = "3" -> 3
    [] c = "4" -> 4 [] c = "5" -> 5 [] c = "6" -> 6 [] c = "7" -> 7
    [] c = "8" -> 8 [] c = "9" -> 9

RECURSIVE DigitRun(_, _)
\* index just past the run of digits of s that starts at i
DigitRun(s, i) ==
  IF i <= Len(s) /\ s[i] \in Digits THEN DigitRun(s, i + 1) ELSE i

RECURSIVE DigitsValue(_, _, _)
\* value of the decimal digits s[i..j-1]
DigitsValue(s, i, j) ==
  IF j <= i THEN 0 ELSE DigitsValue(s, i, j - 1) * 10 + DigitVal(s[j - 1])

\* parseFloat: optional sign, digits, optional '.', digits; the longest such
\* prefix is the number, anything after it is ignored; no digit at all is NaN.
\* The result is in cents (fraction digits after the second are dropped).
parseFloat(s) ==
  LET neg     == Len(s) >= 1 /\ s[1] = "-"
      start   == IF Len(s) >= 1 /\ s[1] \in {"-", "+"} THEN 2 ELSE 1
      intEnd  == DigitRun(s, start)
      hasDot  == intEnd <= Len(s) /\ s[intEnd] = "."
      fracEnd == IF hasDot THEN DigitRun(s, intEnd + 1) ELSE intEnd
      nInt    == intEnd - start
      nFrac   == IF hasDot THEN fracEnd - (intEnd + 1) ELSE 0
      d1      == IF nFrac >= 1 THEN DigitVal(s[intEnd + 1]) ELSE 0
      d2      == IF nFrac >= 2 THEN DigitVal(s[intEnd + 2]) ELSE 0
      mag     == DigitsValue(s, start, intEnd) * 100 + d1 * 10 + d2
  IN  IF nInt = 0 /\ nFrac = 0 THEN NaN
      ELSE IF neg THEN Num(0 - mag) ELSE Num(mag)

\* formatPrice: '$' + Number(num).toFixed(2)
formatPrice(num) ==
  LET mag == IF num.v < 0 THEN 0 - num.v ELSE num.v
  IN  IF num.nan
      THEN [text |-> "$NaN", neg |-> FALSE, dollars |-> 0, cents |-> 0]
      ELSE [text |-> "$", neg |-> (num.v < 0),
            dollars |-> mag \div 100, cents |-> mag % 100]

(* ------------------------------ the cart ------------------------------- *)
emojiMap ==
  [i \in {"1", "2", "3", "4", "5", "6", "7", "8"} |->
     CASE i = "1" -> "burger" [] i = "2" -> "pizza" [] i = "3" -> "sushi"
       [] i = "4" -> "salad"  [] i = "5" -> "taco"  [] i = "6" -> "ramen"
       [] i = "7" -> "cake"   [] i = "8" -> "wrap"]

DefaultEmoji == "plate"

\* items.find(i => i.id === id): index of the first match, 0 for undefined
find(its, id) ==
  IF \E i \in 1..Len(its) : its[i].id = id
  THEN CHOOSE i \in 1..Len(its) :
         /\ its[i].id = id
         /\ \A j \in 1..(i - 1) : its[j].id # id
  ELSE 0

\* add() that pushes a new line item without looking for an existing one
add_alwaysPush(its, id, name, price) ==
  Append(its, [id |-> id, name |-> name, price |-> parseFloat(price), qty |-> 1,
               emoji |-> IF id \in DOMAIN emojiMap
                         THEN emojiMap[id] ELSE DefaultEmoji])

\* add() that forgets to increment an existing item
add_noIncrement(its, id, name, price) ==
  IF find(its, id) # 0 THEN its ELSE add_alwaysPush(its, id, name, price)

\* add() that refreshes the name and price of an existing item
add_lastWriteWins(its, id, name, price) ==
  LET existing == find(its, id)
  IN  IF existing # 0
      THEN [its EXCEPT ![existing].qty = @ + 1,
                       ![existing].name = name,
                       ![existing].price = parseFloat(price)]
      ELSE add_alwaysPush(its, id, name, price)

\* add() that moves an existing item to the end of the array
add_moveToEnd(its, id, name, price) ==
  LET existing == find(its, id)
  IN  IF existing # 0
      THEN Append(SelectSeq(its, LAMBDA i : i.id # id),
                  [its[existing] EXCEPT !.qty = @ + 1])
      ELSE add_alwaysPush(its, id, name, price)

\* the items array after add(id, name, price)
add(its, id, name, price) ==
  LET existing == find(its, id)
  IN  IF existing # 0
      THEN [its EXCEPT ![existing].qty = @ + 1]
      ELSE Append(its, [id    |-> id,
                        name  |-> name,
                        price |-> parseFloat(price),
                        qty   |-> 1,
                        emoji |-> IF id \in DOMAIN emojiMap
                                  THEN emojiMap[id] ELSE DefaultEmoji])

\* changeQty() that removes only below zero
changeQty_ltZero(its, id, delta) ==
  LET item == find(its, id)
  IN  IF item = 0 THEN its
      ELSE LET upd == [its EXCEPT ![item].qty = @ + delta]
           IN  IF upd[item].qty < 0
               THEN SelectSeq(upd, LAMBDA i : i.id # id)
               ELSE upd

\* changeQty() that creates the item when the id is absent
changeQty_upsert(its, id, delta) ==
  LET item == find(its, id)
  IN  IF item = 0
      THEN IF delta > 0
           THEN Append(its, [id |-> id, name |-> "", price |-> NaN,
                             qty |-> delta, emoji |-> DefaultEmoji])
           ELSE its
      ELSE LET upd == [its EXCEPT ![item].qty = @ + delta]
           IN  IF upd[item].qty <= 0
               THEN SelectSeq(upd, LAMBDA i : i.id # id)
               ELSE upd

\* changeQty() that removes the last array element instead of the id's
changeQty_popLast(its, id, delta) ==
  LET item == find(its, id)
  IN  IF item = 0 THEN its
      ELSE LET upd == [its EXCEPT ![item].qty = @ + delta]
           IN  IF upd[item].qty <= 0
               THEN SubSeq(upd, 1, Len(upd) - 1)
               ELSE upd

\* the items array after changeQty(id, delta)
changeQty(its, id, delta) ==
  LET item == find(its, id)
  IN  IF item = 0 THEN its
      ELSE LET upd == [its EXCEPT ![item].qty = @ + delta]
           IN  IF upd[item].qty <= 0
               THEN SelectSeq(upd, LAMBDA i : i.id # id)
               ELSE upd

RECURSIVE SumQty(_, _)
SumQty(its, n) == IF n = 0 THEN 0 ELSE SumQty(its, n - 1) + its[n].qty

RECURSIVE SumPrice(_, _)
SumPrice(its, n) ==
  IF n = 0 THEN Num(0)
  ELSE Plus(SumPrice(its, n - 1), Times(its[n].price, its[n].qty))

getCount(its) == SumQty(its, Len(its))

getSubtotal(its) == SumPrice(its, Len(its))

\* render() that charges the delivery fee on the empty cart too
render_feeAlways(its) ==
  LET subtotal == getSubtotal(its)
  IN  [badge     |-> getCount(its),
       ariaLabel |-> getCount(its),
       emptyShown  |-> (Len(its) = 0),
       footerShown |-> (Len(its) # 0),
       rows      |-> [i \in 1..Len(its) |->
                        [id    |-> its[i].id,
                         emoji |-> its[i].emoji,
                         name  |-> its[i].name,
                         price |-> formatPrice(Times(its[i].price, its[i].qty)),
                         qty   |-> its[i].qty]],
       subtotal  |-> formatPrice(subtotal),
       total     |-> formatPrice(Plus(subtotal, Num(DeliveryFee)))]

\* what render() writes to the page, from the items array
render(its) ==
  LET count    == getCount(its)
      subtotal == getSubtotal(its)
      delivery == IF Len(its) # 0 THEN Num(DeliveryFee) ELSE Num(0)
      total    == Plus(subtotal, delivery)
  IN  [badge     |-> count,
       ariaLabel |-> count,
       emptyShown  |-> (Len(its) = 0),
       footerShown |-> (Len(its) # 0),
       rows      |-> [i \in 1..Len(its) |->
                        [id    |-> its[i].id,
                         emoji |-> its[i].emoji,
                         name  |-> its[i].name,
                         price |-> formatPrice(Times(its[i].price, its[i].qty)),
                         qty   |-> its[i].qty]],
       subtotal  |-> formatPrice(subtotal),
       total     |-> formatPrice(total)]

(* ------------------------------ helpers -------------------------------- *)
InCart(its, id) == \E i \in 1..Len(its) : its[i].id = id

ItemOf(its, id) == its[find(its, id)]

QtyOf(its, id) == IF InCart(its, id) THEN ItemOf(its, id).qty ELSE 0

NoId == "-"

\* the ids that have a line item
IdsIn(its) == {its[i].id : i \in 1..Len(its)}

\* the array without its k-th element
Without(its, k) ==
  [i \in 1..(Len(its) - 1) |-> IF i < k THEN its[i] ELSE its[i + 1]]

\* lastOp: the operation that produced the current state, with its arguments,
\* the quantity its id had before it, whether the drawer was open before it,
\* and how many times it called render() and showToast(); for a slider
\* operation, before is currentIndex before it (the number of running
\* intervals for mouseenter and mouseleave) and delta the swipe distance
Op(name) ==
  [op |-> name, id |-> NoId, delta |-> 0, name |-> "", price |-> << >>,
   before |-> 0, wasOpen |-> drawer.isOpen, renders |-> 0, toasts |-> 0]

(* ------------------------- testimonial slider -------------------------- *)
CardIdx == 0..(NumCards - 1)

DotIdx == 0..(NumDots - 1)

\* isMobile(): window.innerWidth < 768
isMobile(w) == w < MobileBreakpoint

\* the slider after goTo(index) at window width w
goTo(sl, w, index) ==
  IF ~isMobile(w) THEN sl
  ELSE [currentIndex |-> index,
        cards |-> [i \in CardIdx |-> IF i = index THEN "block" ELSE "none"],
        dots  |-> [i \in DotIdx |-> [active |-> (i = index),
                                     aria   |-> (i = index)]]]

\* the slider after initSlider() at window width w
initSlider(sl, w) ==
  IF isMobile(w) THEN goTo(sl, w, sl.currentIndex)
  ELSE [sl EXCEPT !.cards = [i \in CardIdx |-> ""],
                  !.dots  = [i \in DotIdx |->
                               [sl.dots[i] EXCEPT !.active = (i = 0)]]]

\* (currentIndex + 1) without the wrap
nextIndex_noWrap(i) == i + 1

\* (currentIndex + 1) % cards.length
nextIndex(i) == (i + 1) % NumCards

\* (currentIndex - 1 + cards.length) % cards.length
prevIndex(i) == (i - 1 + NumCards) % NumCards

\* autoplay: active is the number of interval timers that are running, live
\* tells whether autoplayTimer is the handle of one of them
\* stopAutoplay(): clearInterval(autoplayTimer)
stopAutoplay(a) ==
  [active |-> IF a.live THEN a.active - 1 ELSE a.active, live |-> FALSE]

\* startAutoplay() that does not stop the running interval first
startAutoplay_noStop(a) == [active |-> a.active + 1, live |-> TRUE]

\* startAutoplay(): stopAutoplay(), then autoplayTimer = setInterval(...)
startAutoplay(a) == [active |-> stopAutoplay(a).active + 1, live |-> TRUE]

\* the slider as the page's HTML has it: every card shown, the first dot active
SliderHtml ==
  [currentIndex |-> 0,
   cards |-> [i \in CardIdx |-> ""],
   dots  |-> [i \in DotIdx |-> [active |-> (i = 0), aria |-> (i = 0)]]]

(* ------------------------------- Init ---------------------------------- *)
\* the state after the script has run in a window of width w
InitAt(w) ==
  /\ items = << >>
  /\ view = render(<< >>)
  /\ toast = [text |-> << >>, type |-> "", visible |-> FALSE]
  /\ toastTimers = << >>
  /\ badgeBump = FALSE
  /\ bumpTimers = 0
  /\ drawer = [isOpen |-> FALSE, overlayOpen |-> FALSE, ariaHidden |-> "true"]
  /\ body = [overflow |-> "", paddingRight |-> << >>]
  /\ menuOpen = FALSE
  /\ lastOp = Op("init")
  /\ addRun = [i \in Ids |-> 0]
  /\ innerWidth = w
  /\ slider = initSlider(SliderHtml, w)
  /\ autoplay = startAutoplay([active |-> 0, live |-> FALSE])
  /\ resizeTimer = FALSE
  /\ touch = [startX |-> 0, endX |-> 0]

\* the page loaded in a desktop window
Init == InitAt(DesktopWidth)

\* the page loaded in a window of any of the widths
InitSlider == \E w \in Widths : InitAt(w)

(* ------------------------------ actions -------------------------------- *)
\* toastTimers: the pending hide timers in the order they were started, each
\* with its age in units of 1000 ms; cur marks the one toast._timeout
\* refers to
\* showToast() that does not clear the previous timer
showToast_noClear(message, type) ==
  /\ Len(toastTimers) < MaxPending
  /\ toast' = [text |-> message, type |-> type, visible |-> TRUE]
  /\ toastTimers' = Append([i \in 1..Len(toastTimers) |->
                             [toastTimers[i] EXCEPT !.cur = FALSE]],
                          [age |-> 0, cur |-> TRUE])

\* showToast(message, type): show, clearTimeout(toast._timeout), start a timer
showToast(message, type) ==
  /\ toast' = [text |-> message, type |-> type, visible |-> TRUE]
  /\ toastTimers' = Append(SelectSeq(toastTimers, LAMBDA t : ~t.cur),
                          [age |-> 0, cur |-> TRUE])

\* animateBadge(): add the bump class and start a 350 ms timer
animateBadge ==
  /\ badgeBump' = TRUE
  /\ bumpTimers' = bumpTimers + 1

\* Cart.add(id, name, price)
\* addRun[id]: 0 while id is absent; n >= 1 after n add calls on id since it
\* was absent with no changeQty on it in between; -1 once a changeQty that
\* kept the item has intervened
CartAdd(id, name, price) ==
  /\ bumpTimers < MaxTimers
  /\ QtyOf(items, id) < MaxQty
  /\ items' = add(items, id, name, price)
  /\ view' = render(items')
  /\ animateBadge
  /\ showToast(<<"added", name>>, "success")
  /\ lastOp' = [Op("add") EXCEPT !.id = id, !.name = name, !.price = price,
                                 !.before = QtyOf(items, id),
                                 !.renders = 1, !.toasts = 1]
  /\ addRun' = [addRun EXCEPT ![id] =
                  IF ~InCart(items, id) THEN 1
                  ELSE IF @ < 0 THEN @ ELSE @ + 1]
  /\ UNCHANGED <<drawer, body, menuOpen, sliderVars>>

\* changeQty() that skips render() when it has removed the item
CartChangeQty_noRenderOnRemove(id, delta) ==
  /\ QtyOf(items, id) + delta <= MaxQty
  /\ items' = changeQty(items, id, delta)
  /\ view' = IF find(items, id) = 0 \/ ~InCart(items', id)
             THEN view ELSE render(items')
  /\ lastOp' = [Op("changeQty") EXCEPT !.id = id, !.delta = delta,
                                       !.before = QtyOf(items, id),
                                       !.renders = IF find(items, id) = 0
                                                      \/ ~InCart(items', id)
                                                   THEN 0 ELSE 1]
  /\ addRun' = [addRun EXCEPT ![id] =
                  IF InCart(items', id) THEN 0 - 1 ELSE 0]
  /\ UNCHANGED <<toast, toastTimers, badgeBump, bumpTimers, drawer, body, menuOpen, sliderVars>>

\* changeQty() that announces a removal with a toast
CartChangeQty_notifies(id, delta) ==
  /\ QtyOf(items, id) + delta <= MaxQty
  /\ items' = changeQty(items, id, delta)
  /\ view' = IF find(items, id) = 0 THEN view ELSE render(items')
  /\ LET removed == InCart(items, id) /\ ~InCart(items', id)
     IN  /\ lastOp' = [Op("changeQty") EXCEPT !.id = id, !.delta = delta,
                                              !.before = QtyOf(items, id),
                                              !.renders = IF find(items, id) = 0
                                                          THEN 0 ELSE 1,
                                              !.toasts = IF removed THEN 1 ELSE 0]
         /\ IF removed THEN showToast(<<"removed">>, "success")
            ELSE UNCHANGED <<toast, toastTimers>>
  /\ addRun' = [addRun EXCEPT ![id] =
                  IF InCart(items', id) THEN 0 - 1 ELSE 0]
  /\ UNCHANGED <<badgeBump, bumpTimers, drawer, body, menuOpen, sliderVars>>

\* Cart.changeQty(id, delta): an absent id returns before render()
CartChangeQty(id, delta) ==
  /\ QtyOf(items, id) + delta <= MaxQty
  /\ items' = changeQty(items, id, delta)
  /\ view' = IF find(items, id) = 0 THEN view ELSE render(items')
  /\ lastOp' = [Op("changeQty") EXCEPT !.id = id, !.delta = delta,
                                       !.before = QtyOf(items, id),
                                       !.renders = IF find(items, id) = 0
                                                   THEN 0 ELSE 1]
  /\ addRun' = [addRun EXCEPT ![id] =
                  IF InCart(items', id) THEN 0 - 1 ELSE 0]
  /\ UNCHANGED <<toast, toastTimers, badgeBump, bumpTimers, drawer, body, menuOpen, sliderVars>>

\* a toast timer that also closes the drawer
ToastTimeout_closesDrawer(k) ==
  /\ k \in 1..Len(toastTimers)
  /\ toast' = [toast EXCEPT !.visible = FALSE]
  /\ toastTimers' = Without(toastTimers, k)
  /\ lastOp' = Op("toastTimeout")
  /\ drawer' = [drawer EXCEPT !.isOpen = FALSE, !.overlayOpen = FALSE,
                              !.ariaHidden = "true"]
  /\ UNCHANGED <<items, view, badgeBump, bumpTimers, body, menuOpen, addRun, sliderVars>>

\* the k-th pending hide timer fires: classList.remove('is-visible')
ToastTimeout(k) ==
  /\ k \in 1..Len(toastTimers)
  /\ toast' = [toast EXCEPT !.visible = FALSE]
  /\ toastTimers' = Without(toastTimers, k)
  /\ lastOp' = Op("toastTimeout")
  /\ UNCHANGED <<items, view, badgeBump, bumpTimers, drawer, body, menuOpen, addRun, sliderVars>>

\* one of the badge's 350 ms timers fires
BumpTimeout ==
  /\ bumpTimers > 0
  /\ badgeBump' = FALSE
  /\ bumpTimers' = bumpTimers - 1
  /\ lastOp' = Op("bumpTimeout")
  /\ UNCHANGED <<items, view, toast, toastTimers, drawer, body, menuOpen, addRun, sliderVars>>

\* a toast from another feature (favourites, search, newsletter, promo code)
OtherToast(type) ==
  /\ showToast(<<"other">>, type)
  /\ lastOp' = [Op("otherToast") EXCEPT !.toasts = 1]
  /\ UNCHANGED <<items, view, badgeBump, bumpTimers, drawer, body, menuOpen, addRun, sliderVars>>

\* getScrollbarWidth(): innerWidth - clientWidth; no scrollbar is laid out
\* while overflow is hidden, or on a platform with overlay scrollbars
getScrollbarWidth(b) ==
  IF b.overflow = "hidden" THEN {0} ELSE {0, ScrollbarWidth}

\* open() written with classList.toggle
open_toggle(d, b, w) ==
  [drawer |-> [d EXCEPT !.isOpen = ~d.isOpen, !.overlayOpen = ~d.overlayOpen,
                        !.ariaHidden = "false"],
   body   |-> [b EXCEPT !.overflow = "hidden", !.paddingRight = <<w>>]]

\* the drawer and the body after open(), w the scrollbar width it measured
open(d, b, w) ==
  [drawer |-> [d EXCEPT !.isOpen = TRUE, !.overlayOpen = TRUE,
                        !.ariaHidden = "false"],
   body   |-> [b EXCEPT !.overflow = "hidden", !.paddingRight = <<w>>]]

\* the drawer and the body after close()
close(d, b) ==
  [drawer |-> [d EXCEPT !.isOpen = FALSE, !.overlayOpen = FALSE,
                        !.ariaHidden = "true"],
   body   |-> [b EXCEPT !.overflow = "", !.paddingRight = << >>]]

\* Cart.open(): click on the cart button
CartOpen ==
  /\ \E w \in getScrollbarWidth(body) :
       /\ drawer' = open(drawer, body, w).drawer
       /\ body' = open(drawer, body, w).body
  /\ lastOp' = Op("open")
  /\ UNCHANGED <<items, view, toast, toastTimers, badgeBump, bumpTimers, menuOpen, addRun, sliderVars>>

\* Cart.close(): click on the close button or on the overlay
CartClose ==
  /\ drawer' = close(drawer, body).drawer
  /\ body' = close(drawer, body).body
  /\ lastOp' = Op("close")
  /\ UNCHANGED <<items, view, toast, toastTimers, badgeBump, bumpTimers, menuOpen, addRun, sliderVars>>

\* openMenu()
openMenu(b) == [menuOpen |-> TRUE, body |-> [b EXCEPT !.overflow = "hidden"]]

\* closeMenu()
closeMenu(b) == [menuOpen |-> FALSE, body |-> [b EXCEPT !.overflow = ""]]

\* click on the hamburger button
HamburgerClick ==
  /\ LET r == IF menuOpen THEN closeMenu(body) ELSE openMenu(body)
     IN  /\ menuOpen' = r.menuOpen
         /\ body' = r.body
  /\ lastOp' = Op("hamburger")
  /\ UNCHANGED <<items, view, toast, toastTimers, badgeBump, bumpTimers, drawer, addRun, sliderVars>>

\* click on a link of the mobile menu
MenuLinkClick ==
  /\ menuOpen' = closeMenu(body).menuOpen
  /\ body' = closeMenu(body).body
  /\ lastOp' = Op("menuLink")
  /\ UNCHANGED <<items, view, toast, toastTimers, badgeBump, bumpTimers, drawer, addRun, sliderVars>>

\* keydown Escape: the mobile menu's listener runs first, then the cart's
KeydownEscape ==
  /\ LET afterMenu == IF menuOpen THEN closeMenu(body)
                      ELSE [menuOpen |-> menuOpen, body |-> body]
         afterCart == IF drawer.isOpen THEN close(drawer, afterMenu.body)
                      ELSE [drawer |-> drawer, body |-> afterMenu.body]
     IN  /\ menuOpen' = afterMenu.menuOpen
         /\ drawer' = afterCart.drawer
         /\ body' = afterCart.body
  /\ lastOp' = Op("escape")
  /\ UNCHANGED <<items, view, toast, toastTimers, badgeBump, bumpTimers, addRun, sliderVars>>

\* the cart, the toast and the badge: every id, name, price and delta
Next ==
  \/ \E id \in Ids, name \in Names, price \in PriceInputs : CartAdd(id, name, price)
  \/ \E id \in Ids, delta \in Deltas : CartChangeQty(id, delta)
  \/ \E k \in 1..MaxPending : ToastTimeout(k)
  \/ BumpTimeout
  \/ \E type \in {"", "success"} : OtherToast(type)

Spec == Init /\ [][Next]_vars

\* the drawer, the mobile menu and the page body, with the cart operations
\* on the ids of DrawerIds and the timers running alongside
NextDrawer ==
  \/ \E id \in DrawerIds, name \in Names, price \in PriceInputs : CartAdd(id, name, price)
  \/ \E id \in DrawerIds, delta \in Deltas : CartChangeQty(id, delta)
  \/ \E k \in 1..MaxPending : ToastTimeout(k)
  \/ BumpTimeout
  \/ \E type \in {"", "success"} : OtherToast(type)
  \/ CartOpen
  \/ CartClose
  \/ HamburgerClick
  \/ MenuLinkClick
  \/ KeydownEscape

SpecDrawer == Init /\ [][NextDrawer]_vars

\* 1000 ms pass; a timer that is due fires before more time passes
TimePasses ==
  /\ toastTimers # << >>
  /\ \A i \in 1..Len(toastTimers) : toastTimers[i].age < ToastDelay
  /\ toastTimers' = [i \in 1..Len(toastTimers) |->
                       [toastTimers[i] EXCEPT !.age = @ + 1]]
  /\ lastOp' = Op("time")
  /\ UNCHANGED <<items, view, toast, badgeBump, bumpTimers, drawer, body, menuOpen, addRun, sliderVars>>

\* a hide timer fires when its 3000 ms have passed
ToastTimeoutDue ==
  \E k \in 1..MaxPending :
    /\ k \in 1..Len(toastTimers)
    /\ toastTimers[k].age = ToastDelay
    /\ ToastTimeout(k)

\* the toast with time: showToast from add and from the other features, the
\* clock, and the hide timer firing when it is due
NextToast ==
  \/ \E id \in DrawerIds, name \in Names, price \in PriceInputs : CartAdd(id, name, price)
  \/ \E id \in DrawerIds, delta \in Deltas : CartChangeQty(id, delta)
  \/ \E type \in {"", "success"} : OtherToast(type)
  \/ BumpTimeout
  \/ TimePasses
  \/ ToastTimeoutDue

\* time does pass and a due timer does fire (the browser's event loop)
SpecToast ==
  Init /\ [][NextToast]_vars /\ WF_vars(TimePasses) /\ WF_vars(ToastTimeoutDue)

(* --------------------------- slider actions ---------------------------- *)
\* click on #sliderPrev
PrevClick ==
  /\ slider' = goTo(slider, innerWidth, prevIndex(slider.currentIndex))
  /\ autoplay' = stopAutoplay(autoplay)
  /\ lastOp' = [Op("prev") EXCEPT !.before = slider.currentIndex]
  /\ UNCHANGED <<cartVars, innerWidth, resizeTimer, touch>>

\* click on #sliderNext
NextClick ==
  /\ slider' = goTo(slider, innerWidth, nextIndex(slider.currentIndex))
  /\ autoplay' = stopAutoplay(autoplay)
  /\ lastOp' = [Op("next") EXCEPT !.before = slider.currentIndex]
  /\ UNCHANGED <<cartVars, innerWidth, resizeTimer, touch>>

\* click on the i-th dot
DotClick(i) ==
  /\ slider' = goTo(slider, innerWidth, i)
  /\ autoplay' = stopAutoplay(autoplay)
  /\ lastOp' = [Op("dot") EXCEPT !.before = slider.currentIndex, !.delta = i]
  /\ UNCHANGED <<cartVars, innerWidth, resizeTimer, touch>>

\* keydown on the slider
SliderKeydown(key) ==
  /\ slider' = IF key = "ArrowLeft"
               THEN goTo(slider, innerWidth, prevIndex(slider.currentIndex))
               ELSE IF key = "ArrowRight"
               THEN goTo(slider, innerWidth, nextIndex(slider.currentIndex))
               ELSE slider
  /\ autoplay' = IF key \in {"ArrowLeft", "ArrowRight"}
                 THEN stopAutoplay(autoplay) ELSE autoplay
  /\ lastOp' = [Op(IF key = "ArrowLeft" THEN "prev"
                   ELSE IF key = "ArrowRight" THEN "next" ELSE "key")
                  EXCEPT !.before = slider.currentIndex, !.name = key]
  /\ UNCHANGED <<cartVars, innerWidth, resizeTimer, touch>>

\* touchstart on the slider
TouchStart(x) ==
  /\ touch' = [touch EXCEPT !.startX = x]
  /\ lastOp' = [Op("touchstart") EXCEPT !.before = slider.currentIndex]
  /\ UNCHANGED <<cartVars, slider, innerWidth, autoplay, resizeTimer>>

\* touchend on the slider: a swipe of more than 50 px navigates
TouchEnd(x) ==
  LET diff  == touch.startX - x
      swipe == (IF diff < 0 THEN 0 - diff ELSE diff) > SwipeThreshold
  IN  /\ touch' = [touch EXCEPT !.endX = x]
      /\ slider' = IF ~swipe THEN slider
                   ELSE IF diff > 0
                   THEN goTo(slider, innerWidth, nextIndex(slider.currentIndex))
                   ELSE goTo(slider, innerWidth, prevIndex(slider.currentIndex))
      /\ autoplay' = IF swipe THEN stopAutoplay(autoplay) ELSE autoplay
      /\ lastOp' = [Op(IF ~swipe THEN "touchend"
                       ELSE IF diff > 0 THEN "next" ELSE "prev")
                      EXCEPT !.before = slider.currentIndex, !.delta = diff,
                             !.name = "swipe"]
      /\ UNCHANGED <<cartVars, innerWidth, resizeTimer>>

\* a running interval timer ticks (every 4000 ms)
AutoplayTick ==
  /\ autoplay.active > 0
  /\ slider' = IF isMobile(innerWidth)
               THEN goTo(slider, innerWidth, nextIndex(slider.currentIndex))
               ELSE slider
  /\ lastOp' = [Op("tick") EXCEPT !.before = slider.currentIndex]
  /\ UNCHANGED <<cartVars, innerWidth, autoplay, resizeTimer, touch>>

\* the window is resized to width w: the 150 ms timer is restarted
Resize(w) ==
  /\ innerWidth' = w
  /\ resizeTimer' = TRUE
  /\ lastOp' = [Op("resize") EXCEPT !.before = slider.currentIndex]
  /\ UNCHANGED <<cartVars, slider, autoplay, touch>>

\* the resize timer fires: initSlider()
ResizeTimeout ==
  /\ resizeTimer
  /\ resizeTimer' = FALSE
  /\ slider' = initSlider(slider, innerWidth)
  /\ lastOp' = [Op("resizeTimeout") EXCEPT !.before = slider.currentIndex]
  /\ UNCHANGED <<cartVars, innerWidth, autoplay, touch>>

\* mouseenter on the slider
MouseEnter ==
  /\ autoplay' = stopAutoplay(autoplay)
  /\ lastOp' = [Op("mouseenter") EXCEPT !.before = autoplay.active]
  /\ UNCHANGED <<cartVars, slider, innerWidth, resizeTimer, touch>>

\* mouseleave on the slider
MouseLeave ==
  /\ autoplay.active < MaxIntervals
  /\ autoplay' = startAutoplay(autoplay)
  /\ lastOp' = [Op("mouseleave") EXCEPT !.before = autoplay.active]
  /\ UNCHANGED <<cartVars, slider, innerWidth, resizeTimer, touch>>

NextSlider ==
  \/ PrevClick
  \/ NextClick
  \/ \E i \in DotIdx : DotClick(i)
  \/ \E key \in Keys : SliderKeydown(key)
  \/ \E x \in ScreenXs : TouchStart(x)
  \/ \E x \in ScreenXs : TouchEnd(x)
  \/ AutoplayTick
  \/ \E w \in Widths : Resize(w)
  \/ ResizeTimeout
  \/ MouseEnter
  \/ MouseLeave

SpecSlider == InitSlider /\ [][NextSlider]_vars

(* ------------------------------- claims -------------------------------- *)
\* C1: in every state reached by add and changeQuantity calls with integer
\* deltas, every stored line item has quantity >= 1.
C1_QuantityPositive ==
  \A i \in 1..Len(items) : items[i].qty >= 1

\* a changeQty that took an item's quantity to zero or below has removed it
C1_Witness ==
  /\ lastOp.op = "changeQty"
  /\ lastOp.before >= 1
  /\ lastOp.before + lastOp.delta <= 0
  /\ ~InCart(items, lastOp.id)
  /\ Len(items) >= 1

\* C2: each id appears in at most one line item of the cart.
C2_IdsUnique ==
  \A i, j \in 1..Len(items) : items[i].id = items[j].id => i = j

\* an add on an id that already had a line item, next to another item
C2_Witness ==
  /\ lastOp.op = "add"
  /\ lastOp.before >= 1
  /\ Len(items) = 2
  /\ items[2].id = lastOp.id

\* C3: changeQuantity on an id that is not in the cart changes nothing: not
\* the items, not what is rendered, not the toast, the badge or the drawer.
C3_AbsentIdNoChange ==
  [][(lastOp'.op = "changeQty" /\ ~InCart(items, lastOp'.id))
       => UNCHANGED <<items, view, toast, toastTimers, badgeBump, bumpTimers,
                      drawer, body, menuOpen>>]_vars

\* a changeQty with a positive delta on an absent id, the cart not empty
C3_Witness ==
  /\ lastOp.op = "changeQty"
  /\ lastOp.before = 0
  /\ lastOp.delta > 0
  /\ ~InCart(items, lastOp.id)
  /\ Len(items) >= 1

\* C4: changeQuantity(id, -q) on an item of quantity q removes that item and
\* leaves every other line item as it was, in the same order; the item count
\* drops by q.
C4_MinusQtyRemoves ==
  [][(/\ lastOp'.op = "changeQty"
      /\ InCart(items, lastOp'.id)
      /\ lastOp'.delta = 0 - ItemOf(items, lastOp'.id).qty)
       => /\ ~InCart(items', lastOp'.id)
          /\ items' = Without(items, find(items, lastOp'.id))
          /\ getCount(items') = getCount(items) + lastOp'.delta
          /\ view'.badge = getCount(items')]_vars

\* changeQty(id, -2) on a first item of quantity 2, the second item remaining
C4_Witness ==
  /\ lastOp.op = "changeQty"
  /\ lastOp.before = 2
  /\ lastOp.delta = 0 - 2
  /\ Len(items) = 1
  /\ items[1].id # lastOp.id
  /\ addRun[items[1].id] = 0 - 1

\* C5: after n >= 1 add calls on an id that was absent, with no changeQuantity
\* on it in between, the cart holds exactly one line item for it, of
\* quantity n.
C5_AddsAccumulate ==
  \A id \in Ids :
    addRun[id] >= 1 =>
      /\ Cardinality({i \in 1..Len(items) : items[i].id = id}) = 1
      /\ ItemOf(items, id).qty = addRun[id]

\* two adds in a row on the same id, with different names and prices
C5_Witness ==
  /\ lastOp.op = "add"
  /\ addRun[lastOp.id] = 2
  /\ lastOp.name # ItemOf(items, lastOp.id).name
  /\ parseFloat(lastOp.price) # ItemOf(items, lastOp.id).price

\* C6: the rendered total is the subtotal for the empty cart and the subtotal
\* plus the delivery fee otherwise, the fee being charged exactly when the
\* item count is positive; items.length # 0 agrees with getCount() > 0.
C6_TotalAddsFeeWhenNonEmpty ==
  /\ (Len(items) # 0) <=> (getCount(items) > 0)
  /\ view.total = formatPrice(IF getCount(items) > 0
                              THEN Plus(getSubtotal(items), Num(DeliveryFee))
                              ELSE getSubtotal(items))
  /\ Len(items) = 0 => view.total = view.subtotal

\* two items of 5.00 and 10: subtotal 15.00, total 17.99
C6_Witness ==
  /\ Len(items) = 2
  /\ getCount(items) = 2
  /\ view.subtotal = formatPrice(Num(1500))
  /\ view.total = formatPrice(Num(1799))

\* C7: add on an id already in the cart only increments that item's quantity
\* by 1; an item's name, unit price and glyph are those of the add that
\* created it and no later add or changeQuantity changes them.
C7_FirstWriteWins ==
  [][/\ (lastOp'.op = "add" /\ InCart(items, lastOp'.id))
          => items' = [items EXCEPT ![find(items, lastOp'.id)].qty = @ + 1]
     /\ (lastOp'.op = "add" /\ ~InCart(items, lastOp'.id))
          => /\ InCart(items', lastOp'.id)
             /\ ItemOf(items', lastOp'.id).name = lastOp'.name
             /\ ItemOf(items', lastOp'.id).price = parseFloat(lastOp'.price)
             /\ ItemOf(items', lastOp'.id).emoji =
                  (IF lastOp'.id \in DOMAIN emojiMap
                   THEN emojiMap[lastOp'.id] ELSE DefaultEmoji)
     /\ \A id \in IdsIn(items) \cap IdsIn(items') :
          /\ ItemOf(items', id).name = ItemOf(items, id).name
          /\ ItemOf(items', id).price = ItemOf(items, id).price
          /\ ItemOf(items', id).emoji = ItemOf(items, id).emoji]_vars

\* an add on an existing item with another name and an unparsable price
C7_Witness ==
  /\ lastOp.op = "add"
  /\ lastOp.before >= 1
  /\ lastOp.name # ItemOf(items, lastOp.id).name
  /\ parseFloat(lastOp.price) = NaN
  /\ ItemOf(items, lastOp.id).price # NaN

\* C8: a new id is appended at the end of the cart, and neither an add on an
\* existing id nor a changeQuantity changes the relative order of the items
\* that remain.
C8_InsertionOrderKept ==
  [][/\ \A a, b \in IdsIn(items) \cap IdsIn(items') :
          find(items, a) < find(items, b) => find(items', a) < find(items', b)
     /\ \A a \in IdsIn(items') \ IdsIn(items) :
          /\ find(items', a) = Len(items')
          /\ Len(items') = Len(items) + 1]_vars

\* an add on the first of two items, which stays first
C8_Witness ==
  /\ lastOp.op = "add"
  /\ lastOp.before >= 1
  /\ Len(items) = 2
  /\ items[1].id = lastOp.id

\* C9: open() leaves the drawer Open and close() leaves it Closed, whatever
\* the state before: a second open() or close() changes nothing, and open()
\* then close() ends Closed.  Drawer, overlay and aria-hidden agree.
C9_OpenCloseIdempotent ==
  /\ lastOp.op = "open" => drawer.isOpen
  /\ lastOp.op = "close" => ~drawer.isOpen
  /\ drawer.overlayOpen = drawer.isOpen
  /\ drawer.ariaHidden = (IF drawer.isOpen THEN "false" ELSE "true")

\* open() on a drawer that was already open
C9_Witness ==
  /\ lastOp.op = "open"
  /\ lastOp.wasOpen
  /\ drawer.isOpen

\* C10: the drawer changes only in open() and close(), the latter also on
\* Escape while it is open: no add, changeQuantity, toast or timer changes it.
C10_OnlyOpenCloseChangeDrawer ==
  [][/\ drawer' # drawer => lastOp'.op \in {"open", "close", "escape"}
     /\ (lastOp'.op = "escape" /\ drawer' # drawer)
          => (drawer.isOpen /\ ~drawer'.isOpen)]_vars

\* the toast timer fired while the drawer was open, and it is still open
C10_Witness ==
  /\ lastOp.op = "toastTimeout"
  /\ lastOp.wasOpen
  /\ drawer.isOpen
  /\ Len(items) >= 1

\* a validated price: parsed, a number, and not negative
ValidPrice(price) == ~parseFloat(price).nan /\ parseFloat(price).v >= 0

\* C11: what is rendered never drifts from the cart: the badge is the sum of
\* the quantities, the subtotal and total are recomputed from the items and
\* there is one row per item, in the cart's order, with its id, name,
\* quantity and line price.
C11_ViewMatchesItems ==
  /\ view.badge = getCount(items)
  /\ view.ariaLabel = getCount(items)
  /\ view.subtotal = formatPrice(getSubtotal(items))
  /\ view.total = formatPrice(Plus(getSubtotal(items),
                                   IF Len(items) # 0 THEN Num(DeliveryFee)
                                   ELSE Num(0)))
  /\ view.emptyShown = (Len(items) = 0)
  /\ view.footerShown = (Len(items) # 0)
  /\ DOMAIN view.rows = 1..Len(items)
  /\ \A i \in 1..Len(items) :
       /\ view.rows[i].id = items[i].id
       /\ view.rows[i].name = items[i].name
       /\ view.rows[i].emoji = items[i].emoji
       /\ view.rows[i].qty = items[i].qty
       /\ view.rows[i].price = formatPrice(Times(items[i].price, items[i].qty))

\* a changeQty removed the first of two items; one row of quantity 2 is left
C11_Witness ==
  /\ lastOp.op = "changeQty"
  /\ lastOp.before >= 1
  /\ ~InCart(items, lastOp.id)
  /\ Len(items) = 1
  /\ DOMAIN view.rows = {1}
  /\ view.rows[1].qty = 2
  /\ view.badge = 2

\* C12: an add whose price does not parse as a non-negative decimal does not
\* change the items, and no line item ever holds a non-numeric price.
C12_InvalidAddRejected ==
  [][/\ (lastOp'.op = "add" /\ ~ValidPrice(lastOp'.price)) => items' = items
     /\ \A i \in 1..Len(items') : ~items'[i].price.nan]_vars

\* C13: every add calls render() once and showToast() once, with the "added"
\* message; a changeQuantity on an id in the cart calls render() once and
\* never showToast(), also when it removes the item; each call is one single
\* mutation of the cart.
C13_OneRenderPerMutation ==
  [][/\ lastOp'.op = "add"
          => /\ lastOp'.renders = 1
             /\ lastOp'.toasts = 1
             /\ toast' = [text |-> <<"added", lastOp'.name>>,
                          type |-> "success", visible |-> TRUE]
             /\ getCount(items') = getCount(items) + 1
             /\ view'.badge = getCount(items')
     /\ (lastOp'.op = "changeQty" /\ InCart(items, lastOp'.id))
          => /\ lastOp'.renders = 1
             /\ lastOp'.toasts = 0
             /\ UNCHANGED <<toast, toastTimers>>
             /\ getCount(items') =
                  getCount(items)
                    + (IF lastOp'.before + lastOp'.delta <= 0
                       THEN 0 - lastOp'.before ELSE lastOp'.delta)
             /\ view'.badge = getCount(items')]_vars

\* a changeQty removed an item while the toast of the add still shows
C13_Witness ==
  /\ lastOp.op = "changeQty"
  /\ lastOp.before >= 1
  /\ ~InCart(items, lastOp.id)
  /\ lastOp.renders = 1
  /\ lastOp.toasts = 0
  /\ toast.visible
  /\ toast.text[1] = "added"

\* C14: page scroll is locked (body overflow hidden) in every state where the
\* cart drawer or the mobile menu is open, and released only when both are
\* closed.
C14_ScrollLockedWhileOpen ==
  (drawer.isOpen \/ menuOpen) => body.overflow = "hidden"

\* C17: at most one hide timer is pending; the toast is visible exactly while
\* one is; it is hidden only by the timer of the most recent showToast call,
\* 3000 ms after that call; and unless showToast keeps being called, the
\* toast ends up hidden.
C17_ToastHiddenAfterLastCall ==
  /\ [](Len(toastTimers) <= 1)
  /\ [](toast.visible <=> toastTimers # << >>)
  /\ [][(toast.visible /\ ~toast'.visible)
          => /\ toastTimers = << [age |-> ToastDelay, cur |-> TRUE] >>
             /\ toastTimers' = << >>]_vars
  /\ ((<>[](~toast.visible)) \/ ([]<>(lastOp.toasts = 1)))

\* after an add and a later toast of another feature, the one timer fired
\* and hid the toast
C17_Witness ==
  /\ lastOp.op = "toastTimeout"
  /\ ~toast.visible
  /\ toast.text = <<"other">>
  /\ toastTimers = << >>
  /\ Len(items) = 1

\* on a mobile width, exactly the card at currentIndex is displayed
OnlyCurrentCardShown ==
  \A i \in CardIdx : (slider.cards[i] # "none") <=> (i = slider.currentIndex)

\* next (button, ArrowRight, swipe left, autoplay tick) goes one card on and
\* wraps from the last to the first, prev goes one back and wraps from the
\* first to the last; on a desktop width navigation changes nothing
SliderNavigation ==
  /\ (lastOp'.op \in {"next", "tick"} /\ isMobile(innerWidth))
       => slider'.currentIndex = (IF slider.currentIndex = NumCards - 1
                                  THEN 0 ELSE slider.currentIndex + 1)
  /\ (lastOp'.op = "prev" /\ isMobile(innerWidth))
       => slider'.currentIndex = (IF slider.currentIndex = 0
                                  THEN NumCards - 1
                                  ELSE slider.currentIndex - 1)
  /\ (lastOp'.op = "dot" /\ isMobile(innerWidth))
       => slider'.currentIndex = lastOp'.delta
  /\ (lastOp'.op \in {"next", "prev", "tick", "dot"} /\ ~isMobile(innerWidth))
       => slider' = slider

\* C15 (as claimed): after any sequence of slider events currentIndex is a
\* valid card index, next has wrapped from the last card to the first and prev
\* from the first to the last, on a mobile width exactly the card at
\* currentIndex is displayed, and on a desktop width goTo has changed nothing.
C15_MobileShowsCurrentCard ==
  /\ slider.currentIndex \in CardIdx
  /\ isMobile(innerWidth) => OnlyCurrentCardShown
  /\ (lastOp.op \in {"next", "tick"} /\ isMobile(innerWidth))
       => slider.currentIndex = (IF lastOp.before = NumCards - 1
                                 THEN 0 ELSE lastOp.before + 1)
  /\ (lastOp.op = "prev" /\ isMobile(innerWidth))
       => slider.currentIndex = (IF lastOp.before = 0
                                 THEN NumCards - 1 ELSE lastOp.before - 1)
  /\ (lastOp.op \in {"next", "prev", "tick", "dot"} /\ ~isMobile(innerWidth))
       => slider.currentIndex = lastOp.before

\* C15 (amended): as claimed, except that after a resize exactly the card at
\* currentIndex is displayed on a mobile width only once the 150 ms resize
\* timer has fired.
C15_MobileShowsCurrentCardOnceSettled ==
  /\ [](slider.currentIndex \in CardIdx)
  /\ []((isMobile(innerWidth) /\ ~resizeTimer) => OnlyCurrentCardShown)
  /\ [][SliderNavigation]_vars

\* next from the last card has wrapped to the first, on a mobile width
C15_Witness ==
  /\ lastOp.op = "next"
  /\ lastOp.before = NumCards - 1
  /\ slider.currentIndex = 0
  /\ isMobile(innerWidth)
  /\ ~resizeTimer
  /\ slider.cards[0] = "block"
  /\ slider.cards[NumCards - 1] = "none"

\* C16: at most one autoplay interval is running, whatever the order of
\* mouseenter, mouseleave and navigation; startAutoplay leaves exactly one,
\* and after stopAutoplay none is left to tick until the next startAutoplay.
C16_OneAutoplayInterval ==
  /\ [](autoplay.active <= 1)
  /\ [](~autoplay.live => autoplay.active = 0)
  /\ [](lastOp.op = "mouseleave" => (autoplay.active = 1 /\ autoplay.live))
  /\ [](lastOp.op \in {"mouseenter", "prev", "next", "dot"}
          => autoplay.active = 0)
  /\ [][lastOp'.op = "tick" => autoplay.live]_vars

\* mouseleave while an interval was already running: still one interval
C16_Witness ==
  /\ lastOp.op = "mouseleave"
  /\ lastOp.before = 1
  /\ autoplay.active = 1
  /\ autoplay.live

====
